---- MODULE Spec2Model ----
(***************************************************************************)
(* Model of mcp-server/server.py: the voice-activity-triggered recorder    *)
(* record_with_vad and the tool handler call_tool built on it.             *)
(*                                                                         *)
(* Durations are integers in milliseconds (SILENCE_TIMEOUT_SEC * 1000 and  *)
(* so on); a frame is identified by its capture number 1, 2, 3, ...        *)
(***************************************************************************)
EXTENDS Integers, Sequences, FiniteSets, TLC

VARIABLES
    config,             \* the "VAD Configuration" constants of this run
    script,             \* the classifier's behaviour: free, or a fixed stream
    pc,                 \* position of the handler
    tool,               \* name passed to call_tool
    pa,                 \* the PyAudio backend: none / init / terminated
    stream,             \* the capture stream: none / open / closed
    frames,             \* frames = []
    ring_buffer,        \* deque of is_speech values
    triggered,
    voiced_frames,
    total_frames,
    pre_speech_buffer,
    exit,               \* how the frame loop was left
    result,             \* what record_with_vad gave its caller
    wav,                \* the container at audio_path
    response,           \* text returned by call_tool
    reads,              \* number of stream.read calls made           (history)
    heard,              \* classifier outcome of every processed frame (history)
    trigger_at,         \* total_frames at the trigger, 0 before it   (history)
    visited,            \* controller states passed through           (history)
    other               \* a second tool call dispatched to the same server

vars == <<config, script, pc, tool, pa, stream, frames, ring_buffer, triggered,
          voiced_frames, total_frames, pre_speech_buffer, exit, result, wav,
          response, reads, heard, trigger_at, visited, other>>

ctrlVars == <<frames, ring_buffer, triggered, voiced_frames, total_frames,
              pre_speech_buffer>>

-----------------------------------------------------------------------------
(* Bounds of the exploration *)

\* free runs: capacities of at most this many frames
MaxRingFrames == 2
MaxPadFrames == 2
MaxSessionFrames == 5
\* scripted runs with the default configuration
MaxLead == 8
MaxExtra == 5

-----------------------------------------------------------------------------
(* Configuration, server.py lines 32-39 *)

SAMPLE_RATE == 16000
VAD_FRAME_DURATIONS == {10, 20, 30}
TRIGGER_FRAMES == 3

DefaultConfig ==
    [FRAME_DURATION_MS |-> 30, SILENCE_TIMEOUT_MS |-> 1500,
     SPEECH_PAD_MS |-> 300, MAX_RECORDING_MS |-> 300000]

\* durations that are not a whole number of frames leave this remainder
Remainders == {0, 5}

SmallConfigs ==
    { [FRAME_DURATION_MS |-> f,
       SILENCE_TIMEOUT_MS |-> r * f + rem,
       SPEECH_PAD_MS |-> p * f + rem,
       MAX_RECORDING_MS |-> m * f + rem] :
         f \in VAD_FRAME_DURATIONS, rem \in Remainders,
         r \in 1..MaxRingFrames, p \in 0..MaxPadFrames,
         m \in 1..MaxSessionFrames }

FRAME_SIZE(cfg) == (SAMPLE_RATE * cfg.FRAME_DURATION_MS) \div 1000

\* int(seconds * 1000 / FRAME_DURATION_MS): int() truncates
FramesIn(duration_ms, frame_ms) == duration_ms \div frame_ms

RingMaxlen(cfg) == FramesIn(cfg.SILENCE_TIMEOUT_MS, cfg.FRAME_DURATION_MS)
max_frames(cfg) == FramesIn(cfg.MAX_RECORDING_MS, cfg.FRAME_DURATION_MS)
padding_frames(cfg) == FramesIn(cfg.SPEECH_PAD_MS, cfg.FRAME_DURATION_MS)

-----------------------------------------------------------------------------
(* The classifier and the capture stream as seen by the frame loop *)

Outcomes == {"speech", "silence", "fail"}

Repeat(x, n) == [i \in 1..n |-> x]

\* lead non-speech frames, 3 + extra speech frames, a full window of silence
ScenarioStream(lead, extra) ==
    Repeat("silence", lead) \o Repeat("speech", TRIGGER_FRAMES + extra)
        \o Repeat("silence", RingMaxlen(DefaultConfig))

\* what vad.is_speech may do on frame number n
ClassifierOutcomes(n) ==
    IF script.scripted
    THEN {IF n <= Len(script.cls) THEN script.cls[n] ELSE "silence"}
    ELSE Outcomes

\* a bug: a classifier error counted as speech
IsSpeech_FailAsSpeech(outcome) == outcome # "silence"

\* try: is_speech = vad.is_speech(...) except Exception: is_speech = False
IsSpeech(outcome) == outcome = "speech"

-----------------------------------------------------------------------------
(* collections.deque(maxlen=n) *)

\* a bug: an unbounded list instead of a deque with maxlen
DequeAppend_NoEvict(d, x, maxlen) == Append(d, x)

\* a bug: a full deque refuses the new element instead of evicting the oldest
DequeAppend_DropNew(d, x, maxlen) ==
    IF Len(d) < maxlen THEN Append(d, x) ELSE d

\* a bug: the deque holds one element more than maxlen
DequeAppend_OffByOne(d, x, maxlen) ==
    IF Len(d) <= maxlen THEN Append(d, x) ELSE Append(Tail(d), x)

DequeAppend(d, x, maxlen) ==
    IF maxlen = 0 THEN d
    ELSE IF Len(d) < maxlen THEN Append(d, x)
    ELSE Append(Tail(d), x)

RECURSIVE Sum(_)
Sum(rb) == IF rb = <<>> THEN 0
           ELSE (IF Head(rb) THEN 1 ELSE 0) + Sum(Tail(rb))

\* a bug: the window is tested as soon as it holds anything
RingFull_AnyLength(rb, maxlen) == Len(rb) >= 1

\* len(ring_buffer) == ring_buffer.maxlen
RingFull(rb, maxlen) == Len(rb) = maxlen

\* num_voiced < len(ring_buffer) * 0.1
FewVoiced(rb) == 10 * Sum(rb) < Len(rb)

SilenceStop(rb, maxlen) == RingFull(rb, maxlen) /\ FewVoiced(rb)

\* a bug: off by one in the loop condition
LoopCond_OffByOne(total, maxf) == total <= maxf

\* while total_frames < max_frames
LoopCond(total, maxf) == total < maxf

\* a bug: the padding is not copied into the recording
ExtendFrames_Dropped(fs, psb) == fs

\* frames.extend(pre_speech_buffer)
ExtendFrames(fs, psb) == fs \o psb

\* a bug: the empty recording is not detected
NoFrames_Never(fs) == FALSE

\* a bug: the test of the empty recording is inverted
NoFrames_Inverted(fs) == fs # <<>>

\* if not frames
NoFrames(fs) == fs = <<>>

-----------------------------------------------------------------------------
(* One iteration of the frame loop after a successful read, lines 149-185  *)

Ctrl == [frames |-> frames, ring_buffer |-> ring_buffer,
         triggered |-> triggered, voiced_frames |-> voiced_frames,
         total_frames |-> total_frames,
         pre_speech_buffer |-> pre_speech_buffer]

InitCtrl == [frames |-> <<>>, ring_buffer |-> <<>>, triggered |-> FALSE,
             voiced_frames |-> 0, total_frames |-> 0,
             pre_speech_buffer |-> <<>>]

\* a bug: a non-speech frame leaves the consecutive-voiced counter alone
ArmedFrame_NoReset(c, cfg, frame, is_speech) ==
    LET psb == DequeAppend(c.pre_speech_buffer, frame, padding_frames(cfg))
    IN  IF is_speech
        THEN IF c.voiced_frames + 1 >= TRIGGER_FRAMES
             THEN [c EXCEPT !.total_frames = frame,
                            !.pre_speech_buffer = psb,
                            !.triggered = TRUE,
                            !.frames = ExtendFrames(c.frames, psb),
                            !.voiced_frames = 0]
             ELSE [c EXCEPT !.total_frames = frame,
                            !.pre_speech_buffer = psb,
                            !.voiced_frames = c.voiced_frames + 1]
        ELSE [c EXCEPT !.total_frames = frame,
                       !.pre_speech_buffer = psb]

\* if not triggered: lines 157-172
ArmedFrame(c, cfg, frame, is_speech) ==
    LET psb == DequeAppend(c.pre_speech_buffer, frame, padding_frames(cfg))
    IN  IF is_speech
        THEN IF c.voiced_frames + 1 >= TRIGGER_FRAMES
             THEN [c EXCEPT !.total_frames = frame,
                            !.pre_speech_buffer = psb,
                            !.triggered = TRUE,
                            !.frames = ExtendFrames(c.frames, psb),
                            !.voiced_frames = 0]
             ELSE [c EXCEPT !.total_frames = frame,
                            !.pre_speech_buffer = psb,
                            !.voiced_frames = c.voiced_frames + 1]
        ELSE [c EXCEPT !.total_frames = frame,
                       !.pre_speech_buffer = psb,
                       !.voiced_frames = 0]

\* a bug: the new frame is put in front of the recording
RecordingFrame_Prepend(c, cfg, frame, is_speech) ==
    [c EXCEPT !.total_frames = frame,
              !.frames = <<frame>> \o c.frames,
              !.ring_buffer = DequeAppend(c.ring_buffer, is_speech,
                                          RingMaxlen(cfg))]

\* a bug: the padding buffer keeps rolling while recording
RecordingFrame_KeepsPadding(c, cfg, frame, is_speech) ==
    [c EXCEPT !.total_frames = frame,
              !.frames = Append(c.frames, frame),
              !.pre_speech_buffer = DequeAppend(c.pre_speech_buffer, frame,
                                                padding_frames(cfg)),
              !.ring_buffer = DequeAppend(c.ring_buffer, is_speech,
                                          RingMaxlen(cfg))]

\* else: lines 173-176
RecordingFrame(c, cfg, frame, is_speech) ==
    [c EXCEPT !.total_frames = frame,
              !.frames = Append(c.frames, frame),
              !.ring_buffer = DequeAppend(c.ring_buffer, is_speech,
                                          RingMaxlen(cfg))]

ProcessFrame(c, cfg, outcome) ==
    LET total == c.total_frames + 1
        frame == total
        is_speech == IsSpeech(outcome)
    IN  IF ~c.triggered
        THEN ArmedFrame(c, cfg, frame, is_speech)
        ELSE RecordingFrame(c, cfg, frame, is_speech)

\* the break of line 185: only in the triggered branch
BreaksOnSilence(c, d, cfg) ==
    c.triggered /\ SilenceStop(d.ring_buffer, RingMaxlen(cfg))

-----------------------------------------------------------------------------
(* Controller state of the specification, derived from the handler *)

State ==
    IF stream = "none" THEN "NONE"
    ELSE IF pc = "loop" THEN (IF triggered THEN "RECORDING" ELSE "ARMED")
    ELSE "DONE"

Visit(s) == IF visited # <<>> /\ visited[Len(visited)] = s
            THEN visited ELSE Append(visited, s)

-----------------------------------------------------------------------------
Init0 ==
    /\ pc = "idle"
    /\ tool = "none"
    /\ pa = "none"
    /\ stream = "none"
    /\ frames = <<>>
    /\ ring_buffer = <<>>
    /\ triggered = FALSE
    /\ voiced_frames = 0
    /\ total_frames = 0
    /\ pre_speech_buffer = <<>>
    /\ exit = "none"
    /\ result = "none"
    /\ wav = "none"
    /\ response = "none"
    /\ reads = 0
    /\ heard = <<>>
    /\ trigger_at = 0
    /\ visited = <<>>

InitFree ==
    /\ config \in SmallConfigs
    /\ script = [scripted |-> FALSE, cls |-> <<>>]
    /\ other = "absent"
    /\ Init0

InitScenario ==
    /\ config = DefaultConfig
    /\ \E lead \in 0..MaxLead, extra \in 0..MaxExtra :
          script = [scripted |-> TRUE, cls |-> ScenarioStream(lead, extra)]
    /\ other = "absent"
    /\ Init0

Init == InitFree \/ InitScenario

\* the server with its own frame duration and a second tool call waiting
ServerConfigs ==
    {c \in SmallConfigs :
        /\ c.FRAME_DURATION_MS = DefaultConfig.FRAME_DURATION_MS
        /\ c.SPEECH_PAD_MS % c.FRAME_DURATION_MS = 0}

InitServer ==
    /\ config \in ServerConfigs
    /\ script = [scripted |-> FALSE, cls |-> <<>>]
    /\ other = "queued"
    /\ Init0

-----------------------------------------------------------------------------
(* The event loop that runs the handlers: a coroutine gives up the loop    *)
(* only at an await, and between its entry and its return call_tool has    *)
(* none (record_with_vad is a plain blocking call).                        *)

\* a bug: the frame loop awaits its reads and gives up the event loop
AwaitPoints_InLoop == {"loop"}

\* positions of the handler at which it awaits
AwaitPoints == {}

\* the event loop can run another handler
LoopFree == pc \in {"idle", "responded"} \cup AwaitPoints

-----------------------------------------------------------------------------
(* call_tool, lines 247-352 *)

RecordingTools == {"record_voice_note", "listen"}

\* else: Unknown tool
CallUnknown ==
    /\ pc = "idle"
    /\ other # "recording"
    /\ tool' = "other"
    /\ response' = "unknown_tool"
    /\ pc' = "responded"
    /\ UNCHANGED <<config, script, other, pa, stream, ctrlVars, exit, result, wav,
                   reads, heard, trigger_at, visited>>

\* record_voice_note: inbox missing or the note already exists
CallRejected ==
    /\ pc = "idle"
    /\ other # "recording"
    /\ tool' = "record_voice_note"
    /\ response' \in {"inbox_missing", "file_exists"}
    /\ pc' = "responded"
    /\ UNCHANGED <<config, script, other, pa, stream, ctrlVars, exit, result, wav,
                   reads, heard, trigger_at, visited>>

\* the handler reaches record_with_vad(temp_audio)
CallRecord ==
    /\ pc = "idle"
    /\ other # "recording"
    /\ tool' \in RecordingTools
    /\ pc' = "start"
    /\ UNCHANGED <<config, script, other, pa, stream, ctrlVars, exit, result, wav,
                   response, reads, heard, trigger_at, visited>>

-----------------------------------------------------------------------------
(* record_with_vad, lines 103-209 *)

\* pa = PyAudio(); stream = pa.open(...); the locals of lines 127-136
OpenStream ==
    /\ pc = "start"
    /\ pa' = "init"
    /\ stream' = "open"
    /\ pc' = "loop"
    /\ visited' = Append(visited, "ARMED")
    /\ UNCHANGED <<config, script, other, tool, ctrlVars, exit, result, wav,
                   response, reads, heard, trigger_at>>

\* pa.open raises: pa.terminate(); return False
OpenFails ==
    /\ pc = "start"
    /\ pa' = "terminated"
    /\ exit' = "open_error"
    /\ result' = "False"
    /\ pc' = "returned"
    /\ UNCHANGED <<config, script, other, tool, stream, ctrlVars, wav, response,
                   reads, heard, trigger_at, visited>>

\* a bug: the silence stop is noted but the loop is not left
Frame_NoBreak ==
    /\ pc = "loop"
    /\ LoopCond(total_frames, max_frames(config))
    /\ \E outcome \in ClassifierOutcomes(total_frames + 1) :
          LET d == ProcessFrame(Ctrl, config, outcome)
              stop == BreaksOnSilence(Ctrl, d, config)
          IN  /\ frames' = d.frames
              /\ ring_buffer' = d.ring_buffer
              /\ triggered' = d.triggered
              /\ voiced_frames' = d.voiced_frames
              /\ total_frames' = d.total_frames
              /\ pre_speech_buffer' = d.pre_speech_buffer
              /\ heard' = Append(heard, outcome)
              /\ trigger_at' = IF d.triggered /\ ~triggered
                               THEN d.total_frames ELSE trigger_at
              /\ exit' = IF stop THEN "silence" ELSE exit
              /\ pc' = "loop"
              /\ visited' = IF d.triggered THEN Visit("RECORDING")
                            ELSE visited
    /\ reads' = reads + 1
    /\ UNCHANGED <<config, script, other, tool, pa, stream, result, wav,
                   response>>

\* stream.read succeeds; the frame is classified and folded into the state
Frame ==
    /\ pc = "loop"
    /\ LoopCond(total_frames, max_frames(config))
    /\ \E outcome \in ClassifierOutcomes(total_frames + 1) :
          LET d == ProcessFrame(Ctrl, config, outcome)
              stop == BreaksOnSilence(Ctrl, d, config)
          IN  /\ frames' = d.frames
              /\ ring_buffer' = d.ring_buffer
              /\ triggered' = d.triggered
              /\ voiced_frames' = d.voiced_frames
              /\ total_frames' = d.total_frames
              /\ pre_speech_buffer' = d.pre_speech_buffer
              /\ heard' = Append(heard, outcome)
              /\ trigger_at' = IF d.triggered /\ ~triggered
                               THEN d.total_frames ELSE trigger_at
              /\ exit' = IF stop THEN "silence" ELSE exit
              /\ pc' = IF stop THEN "finally" ELSE "loop"
              /\ visited' = IF stop THEN Visit("DONE")
                            ELSE IF d.triggered THEN Visit("RECORDING")
                            ELSE visited
    /\ reads' = reads + 1
    /\ UNCHANGED <<config, script, other, tool, pa, stream, result, wav, response>>

\* stream.read raises: break
ReadFails ==
    /\ pc = "loop"
    /\ LoopCond(total_frames, max_frames(config))
    /\ reads' = reads + 1
    /\ exit' = "read_error"
    /\ pc' = "finally"
    /\ visited' = Visit("DONE")
    /\ UNCHANGED <<config, script, other, tool, pa, stream, ctrlVars, result, wav,
                   response, heard, trigger_at>>

\* an exception that no inner handler catches leaves the try block
RaiseInLoop ==
    /\ pc = "loop"
    /\ LoopCond(total_frames, max_frames(config))
    /\ exit' = "exception"
    /\ pc' = "finally"
    /\ visited' = Visit("DONE")
    /\ UNCHANGED <<config, script, other, tool, pa, stream, ctrlVars, result, wav,
                   response, reads, heard, trigger_at>>

\* the while condition is false: max recording time reached
LoopEnds ==
    /\ pc = "loop"
    /\ ~LoopCond(total_frames, max_frames(config))
    /\ exit' = "max"
    /\ pc' = "finally"
    /\ visited' = Visit("DONE")
    /\ UNCHANGED <<config, script, other, tool, pa, stream, ctrlVars, result, wav,
                   response, reads, heard, trigger_at>>

\* a bug: the release is done after the loop instead of in a finally clause
Finally_NotOnException ==
    /\ pc = "finally"
    /\ stream' = IF exit = "exception" THEN stream ELSE "closed"
    /\ pa' = IF exit = "exception" THEN pa ELSE "terminated"
    /\ IF exit = "exception"
       THEN result' = "raised" /\ pc' = "returned"
       ELSE result' = result /\ pc' = "check"
    /\ UNCHANGED <<config, script, other, tool, ctrlVars, exit, wav, response,
                   reads, heard, trigger_at, visited>>

\* finally: stream.stop_stream(); stream.close(); pa.terminate()
Finally ==
    /\ pc = "finally"
    /\ stream' = "closed"
    /\ pa' = "terminated"
    /\ IF exit = "exception"
       THEN result' = "raised" /\ pc' = "returned"
       ELSE result' = result /\ pc' = "check"
    /\ UNCHANGED <<config, script, other, tool, ctrlVars, exit, wav, response,
                   reads, heard, trigger_at, visited>>

\* if not frames: return False
NoSpeech ==
    /\ pc = "check"
    /\ NoFrames(frames)
    /\ result' = "False"
    /\ pc' = "returned"
    /\ UNCHANGED <<config, script, other, tool, pa, stream, ctrlVars, exit, wav,
                   response, reads, heard, trigger_at, visited>>

\* the WAV file is written: return True
WriteWav ==
    /\ pc = "check"
    /\ ~NoFrames(frames)
    /\ wav' = "written"
    /\ result' = "True"
    /\ pc' = "returned"
    /\ UNCHANGED <<config, script, other, tool, pa, stream, ctrlVars, exit,
                   response, reads, heard, trigger_at, visited>>

\* writing raises: return False
WriteFails ==
    /\ pc = "check"
    /\ ~NoFrames(frames)
    /\ wav' = "failed"
    /\ result' = "False"
    /\ pc' = "returned"
    /\ UNCHANGED <<config, script, other, tool, pa, stream, ctrlVars, exit,
                   response, reads, heard, trigger_at, visited>>

-----------------------------------------------------------------------------
(* call_tool after record_with_vad, lines 282-312 and 321-349 *)

\* os.path.getsize(temp_audio): 44 header bytes + 2 bytes per sample
WavSize(fs, cfg) == 44 + Len(fs) * FRAME_SIZE(cfg) * 2

ResponseFor(res, fs, cfg, name, transcription) ==
    IF res = "raised" THEN "exception"
    ELSE IF res = "False" THEN "no_speech_or_failed"
    ELSE IF WavSize(fs, cfg) < 1000 THEN "too_short"
    ELSE IF transcription = "none" THEN "transcription_failed"
    ELSE IF name = "listen" THEN "voice_input"
    ELSE "saved"

Respond ==
    /\ pc = "returned"
    /\ \E transcription \in {"text", "none"} :
          response' = ResponseFor(result, frames, config, tool, transcription)
    /\ pc' = "responded"
    /\ UNCHANGED <<config, script, other, tool, pa, stream, ctrlVars, exit, result,
                   wav, reads, heard, trigger_at, visited>>

-----------------------------------------------------------------------------
(* The second tool call: call_tool and record_with_vad run by another      *)
(* handler of the same server, from its pa.open to its release             *)

OtherStart ==
    /\ other = "queued"
    /\ LoopFree
    /\ other' = "recording"
    /\ UNCHANGED <<config, script, pc, tool, pa, stream, ctrlVars, exit,
                   result, wav, response, reads, heard, trigger_at, visited>>

OtherFinish ==
    /\ other = "recording"
    /\ other' = "responded"
    /\ UNCHANGED <<config, script, pc, tool, pa, stream, ctrlVars, exit,
                   result, wav, response, reads, heard, trigger_at, visited>>

-----------------------------------------------------------------------------
Next ==
    \/ CallUnknown
    \/ CallRejected
    \/ CallRecord
    \/ OpenStream
    \/ OpenFails
    \/ Frame
    \/ ReadFails
    \/ RaiseInLoop
    \/ LoopEnds
    \/ Finally
    \/ NoSpeech
    \/ WriteWav
    \/ WriteFails
    \/ Respond

Spec == Init /\ [][Next]_vars

NextServer ==
    \/ Next
    \/ OtherStart
    \/ OtherFinish

SpecServer == InitServer /\ [][NextServer]_vars

-----------------------------------------------------------------------------
(* Helpers of the properties *)

Returned == pc \in {"returned", "responded"}

Range(lo, hi) == [i \in 1..(hi - lo + 1) |-> lo + i - 1]

Min(a, b) == IF a < b THEN a ELSE b

\* the stream heard so far holds 3 consecutive speech frames and, right after
\* them, cap frames without speech
SpeechThenSilence(log, cap) ==
    \E i \in TRIGGER_FRAMES..Len(log) :
        /\ i + cap <= Len(log)
        /\ \A j \in (i - TRIGGER_FRAMES + 1)..i : log[j] = "speech"
        /\ \A j \in (i + 1)..(i + cap) : log[j] # "speech"

-----------------------------------------------------------------------------
\* C1: a stop by silence happens only with a completely full SilenceRing, so
\* never before ring-capacity frames were recorded after the trigger.
C1_StopOnlyOnFullRing ==
    exit = "silence" =>
        /\ trigger_at > 0
        /\ Len(ring_buffer) = RingMaxlen(config)
        /\ total_frames - trigger_at >= RingMaxlen(config)
        /\ Len(frames) >= RingMaxlen(config)

C1_Witness ==
    /\ exit = "silence"
    /\ config = DefaultConfig
    /\ total_frames - trigger_at = 50

\* C2: the frame count never exceeds max_frames, every processed frame adds
\* one to it, and a session that neither stops by silence nor fails is ended
\* at exactly total_frames = max_frames, ARMED or RECORDING.
C2_HardCap ==
    /\ [](/\ total_frames <= max_frames(config)
          /\ reads <= max_frames(config)
          /\ (pc = "loop" /\ total_frames = max_frames(config)
                => ~ENABLED Frame /\ ENABLED LoopEnds)
          /\ (exit = "max" => total_frames = max_frames(config))
          /\ (State = "DONE" /\ exit \notin {"silence", "read_error",
                                            "exception", "open_error"}
                => exit = "max"))
    /\ [][pc = "loop" /\ pc' = "loop" => total_frames' = total_frames + 1]_vars

C2_Witness ==
    /\ exit = "max"
    /\ triggered
    /\ total_frames = MaxSessionFrames
    /\ \A i \in 1..Len(heard) : heard[i] = "speech"

\* C3: when the hard cap ends the session the outcome follows the controller
\* state: ARMED gives no speech (nothing recorded, no container, False),
\* RECORDING gives a recording that is encoded, for every padding capacity.
C3_CapOutcomeByState ==
    exit = "max" /\ Returned =>
        IF triggered
        THEN wav # "none" /\ (wav = "written" => result = "True")
        ELSE frames = <<>> /\ wav = "none" /\ result = "False"

\* C4: 3 consecutive speech frames followed by a full window of non-speech
\* take the controller through ARMED, RECORDING, DONE with a stop by silence,
\* and the output is the padding followed by the frames after the trigger.
C4_SpeechThenSilenceStops ==
    SpeechThenSilence(heard, RingMaxlen(config)) =>
        /\ exit = "silence"
        /\ visited = <<"ARMED", "RECORDING", "DONE">>
        /\ trigger_at > 0
        /\ frames = pre_speech_buffer \o Range(trigger_at + 1, total_frames)

C4_Witness ==
    /\ SpeechThenSilence(heard, RingMaxlen(config))
    /\ config = DefaultConfig
    /\ Len(pre_speech_buffer) = 10
    /\ pre_speech_buffer[1] < trigger_at - 2
    /\ wav = "written"

\* C5 as stated: 3 voiced then 50 non-voiced frames give an output of
\* 10 padding frames + 3 voiced frames + the frames of the silence window.
IsC5Stream ==
    /\ config = DefaultConfig
    /\ script.scripted
    /\ script.cls = ScenarioStream(0, 0)

C5_LengthAsStated ==
    IsC5Stream /\ exit = "silence" =>
        Len(frames) = 10 + 3 + (total_frames - trigger_at)

\* C5 amended: the padding flushed at the trigger is the pre-speech buffer,
\* which already holds the voiced frames: the output has 3 + 50 = 53 frames,
\* and min(L + 3, 10) + 50 when L non-voiced frames come first.
C5_LengthAmended ==
    \A lead \in 0..MaxLead :
        /\ config = DefaultConfig
        /\ script.scripted
        /\ script.cls = ScenarioStream(lead, 0)
        /\ exit = "silence"
        => /\ total_frames = lead + 3 + 50
           /\ Len(frames) = Min(lead + 3, 10) + 50
           /\ frames = Range(lead + 3 - Min(lead + 3, 10) + 1, lead + 53)

C5_Witness ==
    /\ IsC5Stream
    /\ exit = "silence"
    /\ Len(frames) = 53
    /\ wav = "written"

-----------------------------------------------------------------------------
\* C6: once record_with_vad has returned or raised, the backend is terminated
\* and the stream, if it was opened, is closed; when opening fails no frame
\* was read and False is returned.
C6_DeviceReleased ==
    result # "none" =>
        /\ pa = "terminated"
        /\ stream # "open"
        /\ (exit = "open_error"
              => stream = "none" /\ reads = 0 /\ total_frames = 0
                 /\ result = "False")
        /\ (exit # "open_error" => stream = "closed")

C6_Witness ==
    /\ result = "raised"
    /\ exit = "exception"
    /\ triggered
    /\ stream = "closed"
    /\ pa = "terminated"

\* C7: a read failure, ARMED or RECORDING, leaves no partial output: no
\* container is written and no speech-captured result is returned.
C7_ReadFailureNoOutput ==
    exit = "read_error" =>
        /\ wav = "none"
        /\ result # "True"
        /\ reads = total_frames + 1

\* C8: a classifier failure is the same as a non-speech classification: the
\* step that processes a frame on which the classifier failed gives the
\* controller state, the stop decision and the position that a non-speech
\* classification of that frame gives, and it never ends the session itself.
C8_FailureIsNonSpeech ==
    [][heard' # heard /\ heard'[Len(heard')] = "fail" =>
          LET d == ProcessFrame(Ctrl, config, "silence")
              stop == BreaksOnSilence(Ctrl, d, config)
          IN  /\ Ctrl' = d
              /\ (exit' = "silence") = stop
              /\ pc' = (IF stop THEN "finally" ELSE "loop")
              /\ exit' \in {"none", "silence"}
              /\ result' = "none"
              /\ wav' = "none"]_vars

C8_Witness ==
    /\ heard = <<"fail", "fail", "fail", "fail", "fail">>
    /\ exit = "max"
    /\ result = "False"
    /\ frames = <<>>

\* C9: a stream without any speech that lasts the maximum duration never
\* leaves ARMED, has exactly max_frames frames processed, and ends with no
\* speech detected and an empty frame sequence.
AllNonSpeech == \A i \in 1..Len(heard) : heard[i] = "silence"

C9_AllSilence ==
    AllNonSpeech /\ stream # "none" =>
        /\ ~triggered
        /\ frames = <<>>
        /\ (pc = "loop" => State = "ARMED")
        /\ exit = "max" =>
              /\ total_frames = max_frames(config)
              /\ visited = <<"ARMED", "DONE">>
              /\ wav = "none"
              /\ (Returned => result = "False")

C9_Witness ==
    /\ AllNonSpeech
    /\ exit = "max"
    /\ total_frames = MaxSessionFrames
    /\ result = "False"

\* C10: device failure and write failure reach the caller as outcomes of
\* their own: neither gives the value and the response of no speech detected.
Cause ==
    IF exit = "open_error" THEN "device_unavailable"
    ELSE IF wav = "failed" THEN "write_failure"
    ELSE IF result = "False" THEN "no_speech"
    ELSE "other"

C10_FailuresDistinct ==
    pc = "responded" /\ Cause \in {"device_unavailable", "write_failure"} =>
        /\ result # "False"
        /\ response # "no_speech_or_failed"

-----------------------------------------------------------------------------
\* C11: record_with_vad returns True exactly when the controller reached
\* RECORDING, and False otherwise.
C11_TrueIffRecording ==
    result \in {"True", "False"} => ((result = "True") <=> triggered)

\* C12: a session without speech produces no container, and the frame
\* sequence is encoded at most once, only after DONE was reached.
C12_EncodedOnceAfterDone ==
    /\ [](frames = <<>> /\ Returned => wav = "none")
    /\ [][wav' # wav => /\ wav = "none"
                        /\ State = "DONE"
                        /\ pc = "check"
                        /\ stream = "closed"
                        /\ frames # <<>>]_vars

C12_Witness ==
    /\ result = "False"
    /\ exit = "read_error"
    /\ ~triggered
    /\ total_frames >= 2
    /\ wav = "none"

\* C13: no two executions of record_with_vad overlap: while one handler holds
\* the capture device no other handler opens, reads or closes it, and while
\* another handler records this one does not move.
C13_ExclusiveDevice ==
    /\ [](~(other = "recording" /\ stream = "open"))
    /\ [](~(other = "recording" /\ pc \notin {"idle", "responded"}))
    /\ [][stream = "open" => other' = other]_vars
    /\ [][other = "recording" => pc' = pc /\ stream' = stream /\ pa' = pa]_vars

C13_Witness ==
    /\ other = "recording"
    /\ pc = "responded"
    /\ result = "True"
    /\ stream = "closed"

\* C14: the controller leaves ARMED on a frame exactly when that frame and
\* the two before it were classified speech; a non-speech frame resets the
\* consecutive-voiced counter, which is 0 again right after the trigger.
RECURSIVE TrailingSpeech(_)
TrailingSpeech(log) ==
    IF log = <<>> \/ log[Len(log)] # "speech" THEN 0
    ELSE 1 + TrailingSpeech(SubSeq(log, 1, Len(log) - 1))

LastThreeSpeech(log) ==
    /\ Len(log) >= 3
    /\ \A j \in (Len(log) - 2)..Len(log) : log[j] = "speech"

C14_TriggerOnThreeConsecutive ==
    /\ [](IF triggered THEN voiced_frames = 0
          ELSE voiced_frames = TrailingSpeech(heard) /\ voiced_frames < 3)
    /\ [][~triggered /\ heard' # heard =>
            /\ triggered' <=> LastThreeSpeech(heard')
            /\ (heard'[Len(heard')] # "speech" => voiced_frames' = 0)
            /\ (triggered' => voiced_frames' = 0)]_vars

C14_Witness ==
    /\ heard = <<"speech", "silence", "speech", "speech", "speech">>
    /\ triggered
    /\ trigger_at = 5
    /\ voiced_frames = 0

\* C15: at the trigger the frame sequence is the PreSpeechBuffer, the most
\* recent min(n, padding capacity) of the n frames captured so far; later
\* frames follow, so the output is one contiguous run of the captured stream.
C15_ContiguousOutput ==
    /\ [](IF triggered
          THEN frames = Range(trigger_at
                                - Min(trigger_at, padding_frames(config)) + 1,
                              total_frames)
          ELSE frames = <<>>)
    /\ [][~triggered /\ triggered' =>
            /\ frames' = pre_speech_buffer'
            /\ trigger_at' = total_frames']_vars

C15_Witness ==
    /\ config = DefaultConfig
    /\ exit = "silence"
    /\ trigger_at > 10
    /\ frames[1] = trigger_at - 9
    /\ Len(frames) = 60

\* C16: the PreSpeechBuffer and the SilenceRing never exceed their capacity,
\* the PreSpeechBuffer of an untriggered session holds the last
\* padding-capacity frames in capture order, and the capacities never change.
C16_BoundedBuffers ==
    /\ [](/\ Len(pre_speech_buffer) <= padding_frames(config)
          /\ Len(ring_buffer) <= RingMaxlen(config)
          /\ (~triggered =>
                pre_speech_buffer =
                  Range(total_frames
                          - Min(total_frames, padding_frames(config)) + 1,
                        total_frames)))
    /\ [][config' = config]_vars

C16_Witness ==
    /\ ~triggered
    /\ padding_frames(config) = 2
    /\ total_frames = 5
    /\ pre_speech_buffer = <<4, 5>>

\* C17: once the loop was left (silence stop, hard cap, read failure) no
\* further frame is read, classified or appended, and nothing of the session
\* state changes.
C17_NothingAfterDone ==
    [][exit # "none" => /\ Ctrl' = Ctrl
                        /\ reads' = reads
                        /\ heard' = heard
                        /\ exit' = exit
                        /\ pc' # "loop"
                        /\ State' = State]_vars

C17_Witness ==
    /\ exit = "silence"
    /\ pc = "responded"
    /\ total_frames < max_frames(config)
    /\ reads = total_frames

\* C18: the frame sequence is append-only: before every step it is a prefix
\* of what it is after the step.
IsPrefix(a, b) == Len(a) <= Len(b) /\ SubSeq(b, 1, Len(a)) = a

C18_AppendOnly == [][IsPrefix(frames, frames')]_vars

C18_Witness ==
    /\ frames = <<2, 3, 4, 5>>
    /\ wav = "written"

\* C19: every duration-to-frame-count conversion rounds up: the capacity
\* times the frame duration is at least the configured duration.
C19_RoundsUp ==
    stream # "none" =>
        /\ RingMaxlen(config) * config.FRAME_DURATION_MS
              >= config.SILENCE_TIMEOUT_MS
        /\ padding_frames(config) * config.FRAME_DURATION_MS
              >= config.SPEECH_PAD_MS
        /\ max_frames(config) * config.FRAME_DURATION_MS
              >= config.MAX_RECORDING_MS

\* C20: once triggered the controller never returns to ARMED; while ARMED
\* the frame sequence and the SilenceRing are empty; after the trigger the
\* PreSpeechBuffer and the consecutive-voiced counter no longer change.
C20_ModesAndBuffers ==
    /\ [](~triggered => frames = <<>> /\ ring_buffer = <<>>)
    /\ [][triggered => /\ triggered'
                       /\ pre_speech_buffer' = pre_speech_buffer
                       /\ voiced_frames' = voiced_frames
                       /\ State' # "ARMED"]_vars

C20_Witness ==
    /\ triggered
    /\ total_frames = trigger_at + 2
    /\ Len(ring_buffer) = 2
    /\ pre_speech_buffer = <<2, 3>>
    /\ voiced_frames = 0

====
